---- MODULE Spec2Model ----
(***************************************************************************)
(* Delayed spike propagation and synaptic coupling of the BrainModels      *)
(* synapse and neuron models (ExpCUBA, ExpCOBA, NMDA, GABAa1, GABAa2, FHN,  *)
(* AdQuaIF).                                                                *)
(*                                                                          *)
(* The program computes with floating-point numbers.  Here every real       *)
(* quantity is an exact rational [n |-> numerator, d |-> denominator > 0]   *)
(* in lowest terms.  Time is counted in steps of _dt: the time of tick k    *)
(* is k, and every time constant is given in units of _dt.                  *)
(***************************************************************************)
EXTENDS Integers, Sequences, FiniteSets, TLC

VARIABLES syn, pre, post, tick, done, hist, neu

vars == <<syn, pre, post, tick, done, hist, neu>>

(***************************************************************************)
(* Bounds of the model.                                                     *)
(***************************************************************************)
MaxTick == 3

MaxDelay == 2

(***************************************************************************)
(* Rational arithmetic (the program's float arithmetic, without rounding).  *)
(***************************************************************************)
Abs(n) == IF n < 0 THEN -n ELSE n

RECURSIVE GCD(_, _)
GCD(a, b) == IF b = 0 THEN a ELSE GCD(b, a % b)

Q(n, d) ==
    LET s == IF d < 0 THEN -1 ELSE 1
        k == GCD(Abs(n), Abs(d))
    IN  [n |-> (s * n) \div k, d |-> (s * d) \div k]

QInt(i) == [n |-> i, d |-> 1]

QZero == QInt(0)

QOne == QInt(1)

\* the sum over the least common denominator, to keep the integers small
QAdd(a, b) ==
    LET k == GCD(a.d, b.d)
    IN  Q(a.n * (b.d \div k) + b.n * (a.d \div k), (a.d \div k) * b.d)

QNeg(a) == [n |-> -a.n, d |-> a.d]

QSub(a, b) == QAdd(a, QNeg(b))

\* the product, with the common factors cancelled first
QMul(a, b) ==
    LET k1 == GCD(Abs(a.n), b.d)
        k2 == GCD(Abs(b.n), a.d)
    IN  Q((a.n \div k1) * (b.n \div k2), (a.d \div k2) * (b.d \div k1))

\* a / b for b # 0; the callers guard the division by zero themselves
QDiv(a, b) == QMul(a, Q(b.d, b.n))

QLt(a, b) == a.n * b.d < b.n * a.d

QLe(a, b) == a.n * b.d <= b.n * a.d

(***************************************************************************)
(* exp(z).  TLC has no reals, and exp of a rational is irrational: exp is   *)
(* represented by the rational function 1 + z for z >= 0 and 1 / (1 - z)    *)
(* for z < 0, which like exp is positive, strictly increasing, 1 at z = 0   *)
(* and below 1 exactly for z < 0.                                           *)
(***************************************************************************)
QExp(z) ==
    IF z.n >= 0 THEN QAdd(QOne, z) ELSE QDiv(QOne, QSub(QOne, z))

(***************************************************************************)
(* Populations and connectivity.  Neuron ids are 0-based as in the code.    *)
(***************************************************************************)
\* two pre-synaptic and two post-synaptic neurons
PreIds == {0, 1}

PostIds == {0, 1}

SpikeVectors == [PreIds -> {0, 1}]

ZeroSpikes == [i \in PreIds |-> 0]

ZeroInput == [j \in PostIds |-> QZero]

\* the edges 0->0, 0->1, 1->1
ConnScenario == {<<0, 0>>, <<0, 1>>, <<1, 1>>}

ConnAllToAll == PreIds \X PostIds

ConnCross == {<<0, 1>>, <<1, 0>>}

Conns == {ConnScenario, ConnAllToAll, ConnCross}

\* a finite set of integers as the ascending sequence of its elements
RECURSIVE Sorted(_)
Sorted(S) ==
    IF S = {} THEN <<>>
    ELSE LET m == CHOOSE x \in S : \A y \in S : x <= y
         IN  <<m>> \o Sorted(S \ {m})

\* a 1-based TLA+ sequence as a 0-based array
Array(sq) == [k \in 0 .. (Len(sq) - 1) |-> sq[k + 1]]

ALen(a) == Cardinality(DOMAIN a)

\* the edges sorted by pre-id, then post-id, as brainpy's connectivity gives them
RECURSIVE EdgeSeq(_, _)
EdgeSeq(conn, i) ==
    IF i \notin PreIds THEN <<>>
    ELSE LET posts == Sorted({e[2] : e \in {f \in conn : f[1] = i}})
         IN  [k \in 1 .. Len(posts) |-> <<i, posts[k]>>] \o EdgeSeq(conn, i + 1)

\* conn.requires('pre_ids', 'post_ids'): the two parallel edge arrays
PreIdsOf(conn) == Array([k \in 1 .. Len(EdgeSeq(conn, 0)) |-> EdgeSeq(conn, 0)[k][1]])

PostIdsOf(conn) == Array([k \in 1 .. Len(EdgeSeq(conn, 0)) |-> EdgeSeq(conn, 0)[k][2]])

\* conn.requires('pre_slice'): per pre-id the half-open range [start, end) into post_ids
PreSliceOf(conn) ==
    [i \in PreIds |->
        <<Cardinality({e \in conn : e[1] < i}), Cardinality({e \in conn : e[1] <= i})>>]

\* conn.requires('conn_mat'): the dense 0/1 matrix indexed [pre][post]
ConnMatOf(conn) ==
    [i \in PreIds |-> [j \in PostIds |-> IF <<i, j>> \in conn THEN 1 ELSE 0]]

\* pre2syn / post2syn of the GABAa models: the synapse (edge) indices of a neuron
Pre2Syn(conn, i) == {k \in DOMAIN PreIdsOf(conn) : PreIdsOf(conn)[k] = i}

Post2Syn(conn, j) == {k \in DOMAIN PostIdsOf(conn) : PostIdsOf(conn)[k] = j}

(***************************************************************************)
(* The constant delay registered by register_constant_delay: a ring of      *)
(* D + 1 spike vectors, zero-filled at creation.  push records the vector   *)
(* at the cursor and advances the cursor; pull returns the vector recorded  *)
(* D pushes before the latest one.                                          *)
(***************************************************************************)
DelayNew(D) ==
    [num_step |-> D + 1, head |-> 0, data |-> [k \in 0 .. D |-> ZeroSpikes]]

DelayPush(dl, v) ==
    [dl EXCEPT !.data[dl.head] = v, !.head = (dl.head + 1) % dl.num_step]

DelayPull(dl) == dl.data[dl.head]

(***************************************************************************)
(* Construction parameters.                                                 *)
(***************************************************************************)
Kinds == {"ExpCUBA", "ExpCOBA", "NMDA", "GABAa1", "GABAa2"}

\* 'loop' stands for every update_type other than 'sparse' and 'dense'
UpdateTypes == {"sparse", "dense", "loop"}

\* decay time constants in units of _dt: 0, 1/2 and 2
TauValues == {Q(0, 1), Q(1, 2), Q(2, 1)}

TauRiseValues == {Q(0, 1), Q(1, 1)}

GMaxValues == {QInt(1), QInt(2)}

EValues == {QInt(-1), QInt(0)}

\* the post-synaptic voltages the model samples: every neuron at -1, or neuron 0 at 0
VVectors ==
    {[j \in PostIds |-> QInt(-1)], [j \in PostIds |-> IF j = 0 THEN QZero ELSE QInt(-1)]}

\* NMDA: a, alpha, beta, cc_Mg
NMDA_a == Q(1, 2)

NMDA_alpha == QInt(1)

NMDA_beta == QInt(2)

NMDA_cc_Mg == QInt(1)

\* GABAa2: alpha, beta, T, T_duration
GABAa2_alpha == Q(1, 2)

GABAa2_beta == Q(1, 4)

GABAa2_T == QInt(1)

GABAa2_T_duration == QInt(2)

\* t_last_pre_spike = -1e7
TLastInit == -10000000

(***************************************************************************)
(* A synapse object.  status is "new" before the constructor ran, "ready"   *)
(* when it returned, the name of the exception when it raised, and          *)
(* "ZeroDivision" once an update divided by a zero time constant.  The      *)
(* fields g, x, s, t_last_pre_spike and pre_spike exist only when hasState. *)
(* pulled, log, nupd, contrib and alone record the latest update: the       *)
(* delayed vector it pulled, the steps it ran in order, how many updates    *)
(* ran so far, what the update changed post.input by, and the input the     *)
(* same call leaves when post.input is all zero before it.                  *)
(***************************************************************************)
Blank ==
    [kind |-> "none", update_type |-> "none", status |-> "new",
     tau |-> QOne, tau_rise |-> QOne, delay |-> 0, g_max |-> QOne, E |-> QZero,
     conn |-> {}, pre_slice |-> <<>>, pre_ids |-> <<>>, post_ids |-> <<>>,
     conn_mat |-> <<>>, size |-> 0,
     hasState |-> FALSE, g |-> <<>>, x |-> <<>>, s |-> <<>>,
     t_last_pre_spike |-> <<>>, TT |-> <<>>, pre_spike |-> <<>>,
     pulled |-> <<>>, log |-> <<>>, nupd |-> 0, contrib |-> <<>>, alone |-> <<>>]

Params(kind, ut, tau, tr, D, gm, E, conn) ==
    [Blank EXCEPT !.kind = kind, !.update_type = ut, !.tau = tau, !.tau_rise = tr,
                  !.delay = D, !.g_max = gm, !.E = E, !.conn = conn]

\* the variables created before update_type is looked at
ExpCUBA_init_variables_first(p) ==
    IF p.update_type = "dense" THEN
        [p EXCEPT !.conn_mat = ConnMatOf(p.conn),
                  !.size = Cardinality(PreIds) * Cardinality(PostIds),
                  !.g = [i \in PreIds |-> [j \in PostIds |-> QZero]],
                  !.pre_spike = DelayNew(p.delay),
                  !.hasState = TRUE, !.status = "ready"]
    ELSE
        [p EXCEPT !.pre_slice = PreSliceOf(p.conn), !.post_ids = PostIdsOf(p.conn),
                  !.size = Cardinality(PostIds),
                  !.g = [j \in PostIds |-> QZero],
                  !.pre_spike = DelayNew(p.delay),
                  !.hasState = TRUE,
                  !.status = IF p.update_type = "sparse" THEN "ready"
                             ELSE "UnsupportedError"]

\* ExpCUBA.__init__ (ExpCOBA.__init__ calls it and then stores E)
ExpCUBA_init(p) ==
    IF p.update_type = "sparse" THEN
        [p EXCEPT !.pre_slice = PreSliceOf(p.conn), !.post_ids = PostIdsOf(p.conn),
                  !.size = Cardinality(PostIds),
                  !.g = [j \in PostIds |-> QZero],
                  !.pre_spike = DelayNew(p.delay),
                  !.hasState = TRUE, !.status = "ready"]
    ELSE IF p.update_type = "dense" THEN
        [p EXCEPT !.conn_mat = ConnMatOf(p.conn),
                  !.size = Cardinality(PreIds) * Cardinality(PostIds),
                  !.g = [i \in PreIds |-> [j \in PostIds |-> QZero]],
                  !.pre_spike = DelayNew(p.delay),
                  !.hasState = TRUE, !.status = "ready"]
    ELSE [p EXCEPT !.status = "UnsupportedError"]

NMDA_init(p) ==
    IF p.update_type = "sparse" THEN
        [p EXCEPT !.pre_ids = PreIdsOf(p.conn), !.post_ids = PostIdsOf(p.conn),
                  !.size = ALen(PreIdsOf(p.conn)),
                  !.pre_spike = DelayNew(p.delay),
                  !.g = [k \in DOMAIN PreIdsOf(p.conn) |-> QZero],
                  !.x = [k \in DOMAIN PreIdsOf(p.conn) |-> QZero],
                  !.hasState = TRUE, !.status = "ready"]
    ELSE IF p.update_type = "dense" THEN [p EXCEPT !.status = "NotImplementedError"]
    ELSE [p EXCEPT !.status = "UnsupportedError"]

\* get_GABAa1: the SynType with ST = {s, g}, one entry per synapse (edge)
GABAa1_init(p) ==
    [p EXCEPT !.pre_ids = PreIdsOf(p.conn), !.post_ids = PostIdsOf(p.conn),
              !.size = ALen(PreIdsOf(p.conn)),
              !.s = [k \in DOMAIN PreIdsOf(p.conn) |-> QZero],
              !.g = [k \in DOMAIN PreIdsOf(p.conn) |-> QZero],
              !.hasState = TRUE, !.status = "ready"]

\* get_GABAa2: ST = {s: 0, g: 0, t_last_pre_spike: -1e7}
GABAa2_init(p) ==
    [GABAa1_init(p) EXCEPT
        !.t_last_pre_spike = [k \in DOMAIN PreIdsOf(p.conn) |-> TLastInit]]

New(p) ==
    CASE p.kind \in {"ExpCUBA", "ExpCOBA"} -> ExpCUBA_init(p)
      [] p.kind = "NMDA" -> NMDA_init(p)
      [] p.kind = "GABAa1" -> GABAa1_init(p)
      [] p.kind = "GABAa2" -> GABAa2_init(p)

(***************************************************************************)
(* The integrators.  _dt is one time unit.                                  *)
(***************************************************************************)
\* exp(-_dt / tau), for tau # 0
ExpDecay(tau) == QExp(QNeg(QDiv(QOne, tau)))

\* ExpCUBA.integral, exponential Euler of dg/dt = -g / tau: g * exp(-_dt / tau)
integral(g, tau) == QMul(g, ExpDecay(tau))

\* NMDA.integral, exponential Euler of dx/dt = -x / tau_rise and
\* dg/dt = -g / tau_decay + a * x * (1 - g), both from the old g and x:
\* with A = -(1 / tau_decay + a * x), g + (exp(A * _dt) - 1) / A * (A * g + a * x)
NMDA_integral_x(x, tau_rise) == QMul(x, ExpDecay(tau_rise))

NMDA_integral_g(g, x, tau_decay) ==
    LET A  == QNeg(QAdd(QDiv(QOne, tau_decay), QMul(NMDA_a, x)))
        f  == QAdd(QMul(A, g), QMul(NMDA_a, x))
    IN  QAdd(g, QMul(QDiv(QSub(QExp(A), QOne), A), f))

\* get_GABAa1.int_s, (forward) Euler of ds/dt = -s / tau_decay: s + _dt * (-s / tau_decay)
GABAa1_int_s(s, tau_decay) == QAdd(s, QNeg(QDiv(s, tau_decay)))

\* get_GABAa2.int_s, (forward) Euler of ds/dt = alpha * TT * (1 - s) - beta * s
GABAa2_int_s(s, TT) ==
    QAdd(s, QSub(QMul(QMul(GABAa2_alpha, TT), QSub(QOne, s)), QMul(GABAa2_beta, s)))

(***************************************************************************)
(* The update handlers.  Each takes the synapse, the pre-synaptic spike     *)
(* vector, the post-synaptic V and input and the time _t, and gives the     *)
(* synapse and the input after the call.                                    *)
(***************************************************************************)
\* the pull before the push
PullPush(dl, spike) ==
    [dl |-> DelayPush(dl, spike), pulled |-> DelayPull(dl)]

\* self.pre_spike.push(self.pre.spike); pre_spike = self.pre_spike.pull()
PushPull(dl, spike) ==
    [dl |-> DelayPush(dl, spike), pulled |-> DelayPull(DelayPush(dl, spike))]

\* bm.where(pre_spike)[0]: the flagged pre-ids in ascending order
Where(v) == Sorted({i \in DOMAIN v : v[i] # 0})

\* an update that divided by a zero time constant, after the push and the pull:
\* what the build does then (an exception, or NaN in g) is not followed further
ZeroDivision(sy, pp, input) ==
    [syn |-> [sy EXCEPT !.pre_spike = pp.dl, !.pulled = pp.pulled,
                        !.log = <<"push", "pull">>, !.nupd = @ + 1,
                        !.status = "ZeroDivision"],
     input |-> input]

\* the slice taken with its end included
SlicePostsInclusive(sy, pre_id) ==
    {sy.post_ids[k] : k \in (sy.pre_slice[pre_id][1] .. sy.pre_slice[pre_id][2])
                              \cap DOMAIN sy.post_ids}

\* the posts of pre_id's slice: self.post_ids[start: end]
SlicePosts(sy, pre_id) ==
    {sy.post_ids[k] : k \in sy.pre_slice[pre_id][1] .. (sy.pre_slice[pre_id][2] - 1)}

\* for pre_id in spike_pre_ids: self.g[post_ids] += self.g_max
RECURSIVE SparseIncrements(_, _, _)
SparseIncrements(sy, g, ids) ==
    IF ids = <<>> THEN g
    ELSE SparseIncrements(sy,
            [j \in DOMAIN g |->
                IF j \in SlicePosts(sy, Head(ids)) THEN QAdd(g[j], sy.g_max) ELSE g[j]],
            Tail(ids))

\* post.input overwritten instead of added to
CUBA_overwrite(input, g) == [j \in DOMAIN input |-> g[j]]

\* the post.input statement of ExpCUBA._sparse_update: self.post.input[:] += self.g
CUBA_inject(input, g) == [j \in DOMAIN input |-> QAdd(input[j], g[j])]

ExpCUBA_sparse_update(sy, spike, V, input) ==
    LET pp == PushPull(sy.pre_spike, spike) IN
    IF sy.tau.n = 0 THEN ZeroDivision(sy, pp, input) ELSE
    LET g1 == [j \in DOMAIN sy.g |-> integral(sy.g[j], sy.tau)]
        g2 == SparseIncrements(sy, g1, Where(pp.pulled))
    IN  [syn |-> [sy EXCEPT !.pre_spike = pp.dl, !.pulled = pp.pulled, !.g = g2,
                            !.nupd = @ + 1,
                            !.log = <<"push", "pull", "integrate", "increment",
                                      "inject">>],
         input |-> CUBA_inject(input, g2)]

\* if i_spike: self.g[i] += self.conn_mat[i] * self.g_max, for i in range(pre.num)
DenseIncrements(sy, g, pulled) ==
    [i \in DOMAIN g |->
        IF pulled[i] # 0
        THEN [j \in DOMAIN g[i] |->
                QAdd(g[i][j], QMul(QInt(sy.conn_mat[i][j]), sy.g_max))]
        ELSE g[i]]

\* ExpCUBA._dense_update (ExpCOBA inherits it): it has no post.input statement
ExpCUBA_dense_update(sy, spike, V, input) ==
    LET pp == PushPull(sy.pre_spike, spike) IN
    IF sy.tau.n = 0 THEN ZeroDivision(sy, pp, input) ELSE
    LET g1 == [i \in DOMAIN sy.g |->
                  [j \in DOMAIN sy.g[i] |-> integral(sy.g[i][j], sy.tau)]]
        g2 == DenseIncrements(sy, g1, pp.pulled)
    IN  [syn |-> [sy EXCEPT !.pre_spike = pp.dl, !.pulled = pp.pulled, !.g = g2,
                            !.nupd = @ + 1,
                            !.log = <<"push", "pull", "integrate", "increment">>],
         input |-> input]

\* g * E - V in place of g * (E - V)
COBA_unparenthesised(input, g, E, V) ==
    [j \in DOMAIN input |-> QAdd(input[j], QSub(QMul(g[j], E), V[j]))]

\* the post.input statement of ExpCOBA._sparse_update:
\* self.post.input[:] += self.g * (self.E - self.post.V)
COBA_inject(input, g, E, V) ==
    [j \in DOMAIN input |-> QAdd(input[j], QMul(g[j], QSub(E, V[j])))]

\* ExpCOBA._sparse_update: the increments loop over range(pre.num) and the slice
ExpCOBA_sparse_update(sy, spike, V, input) ==
    LET pp == PushPull(sy.pre_spike, spike) IN
    IF sy.tau.n = 0 THEN ZeroDivision(sy, pp, input) ELSE
    LET g1 == [j \in DOMAIN sy.g |-> integral(sy.g[j], sy.tau)]
        g2 == SparseIncrements(sy, g1, Where(pp.pulled))
    IN  [syn |-> [sy EXCEPT !.pre_spike = pp.dl, !.pulled = pp.pulled, !.g = g2,
                            !.nupd = @ + 1,
                            !.log = <<"push", "pull", "integrate", "increment",
                                      "inject">>],
         input |-> COBA_inject(input, g2, sy.E, V)]

\* g_inf = 1 + self.cc_Mg / self.beta * bm.exp(-self.alpha * self.post.V[post_id])
NMDA_g_inf(v) ==
    QAdd(QOne, QMul(QDiv(NMDA_cc_Mg, NMDA_beta), QExp(QNeg(QMul(NMDA_alpha, v)))))

\* what edge i subtracts from post.input[post_id]:
\* self.g_max * self.g[i] * (self.post.V[post_id] - self.E) / g_inf
NMDA_current(sy, g, v) ==
    QDiv(QMul(QMul(sy.g_max, g), QSub(v, sy.E)), NMDA_g_inf(v))

\* the loop of NMDA.sparse_update from edge i on: x[i] += delayed spike of the
\* edge's pre-id, then post.input[post_id] -= the edge's current
RECURSIVE NMDA_loop(_, _, _, _, _)
NMDA_loop(sy, i, st, pulled, V) ==
    IF i >= sy.size THEN st
    ELSE LET pre_id == sy.pre_ids[i]
             post_id == sy.post_ids[i]
         IN  NMDA_loop(sy, i + 1,
                [x |-> [st.x EXCEPT ![i] = QAdd(@, QInt(pulled[pre_id]))],
                 input |-> [st.input EXCEPT
                              ![post_id] = QSub(@, NMDA_current(sy, st.g[i], V[post_id]))],
                 g |-> st.g,
                 log |-> st.log \o <<"increment", "inject">>],
                pulled, V)

\* the spike increment of x applied before the integration instead of after it
NMDA_update_increment_first(sy, spike, V, input) ==
    LET pp == PushPull(sy.pre_spike, spike) IN
    IF sy.tau.n = 0 \/ sy.tau_rise.n = 0 THEN ZeroDivision(sy, pp, input) ELSE
    LET xi == [i \in DOMAIN sy.x |-> QAdd(sy.x[i], QInt(pp.pulled[sy.pre_ids[i]]))]
        g1 == [i \in DOMAIN sy.g |-> NMDA_integral_g(sy.g[i], xi[i], sy.tau)]
        x1 == [i \in DOMAIN sy.x |-> NMDA_integral_x(xi[i], sy.tau_rise)]
        st == NMDA_loop(sy, 0,
                [x |-> x1, g |-> g1, input |-> input,
                 log |-> <<"push", "pull", "integrate">>], ZeroSpikes, V)
    IN  [syn |-> [sy EXCEPT !.pre_spike = pp.dl, !.pulled = pp.pulled, !.g = g1,
                            !.x = st.x, !.nupd = @ + 1, !.log = st.log],
         input |-> st.input]

NMDA_sparse_update(sy, spike, V, input) ==
    LET pp == PushPull(sy.pre_spike, spike) IN
    IF sy.tau.n = 0 \/ sy.tau_rise.n = 0 THEN ZeroDivision(sy, pp, input) ELSE
    LET g1 == [i \in DOMAIN sy.g |-> NMDA_integral_g(sy.g[i], sy.x[i], sy.tau)]
        x1 == [i \in DOMAIN sy.x |-> NMDA_integral_x(sy.x[i], sy.tau_rise)]
        st == NMDA_loop(sy, 0,
                [x |-> x1, g |-> g1, input |-> input,
                 log |-> <<"push", "pull", "integrate">>], pp.pulled, V)
    IN  [syn |-> [sy EXCEPT !.pre_spike = pp.dl, !.pulled = pp.pulled, !.g = g1,
                            !.x = st.x, !.nupd = @ + 1, !.log = st.log],
         input |-> st.input]

\* np.sum of the entries of g at the indices ids
RECURSIVE QSum(_, _)
QSum(g, ids) ==
    IF ids = {} THEN QZero
    ELSE LET k == CHOOSE k \in ids : TRUE IN QAdd(g[k], QSum(g, ids \ {k}))

\* output of get_GABAa1 and of get_GABAa2:
\* post_cond[post_id] = np.sum(ST['g'][syn_ids]); post['input'] -= post_cond * (post['V'] - E)
GABAa_output(sy, g, V, input) ==
    [j \in DOMAIN input |->
        QSub(input[j], QMul(QSum(g, Post2Syn(sy.conn, j)), QSub(V[j], sy.E)))]

\* ST['g'] taken from s as it was before the spike increments
GABAa1_update_g_before_increment(sy, spike, V, input) ==
    IF sy.tau.n = 0
    THEN [syn |-> [sy EXCEPT !.log = <<>>, !.nupd = @ + 1, !.status = "ZeroDivision"],
          input |-> input]
    ELSE
    LET s1 == [k \in DOMAIN sy.s |-> GABAa1_int_s(sy.s[k], sy.tau)]
        s2 == [k \in DOMAIN s1 |->
                 IF spike[sy.pre_ids[k]] > 0 THEN QAdd(s1[k], QOne) ELSE s1[k]]
        g2 == [k \in DOMAIN s1 |-> QMul(sy.g_max, s1[k])]
    IN  [syn |-> [sy EXCEPT !.s = s2, !.g = g2, !.nupd = @ + 1,
                            !.log = <<"integrate", "increment", "inject">>],
         input |-> GABAa_output(sy, g2, V, input)]

\* the steps (update, output) of GABAa1; pre['spike'] is read directly
GABAa1_update(sy, spike, V, input) ==
    IF sy.tau.n = 0
    THEN [syn |-> [sy EXCEPT !.log = <<>>, !.nupd = @ + 1, !.status = "ZeroDivision"],
          input |-> input]
    ELSE
    LET s1 == [k \in DOMAIN sy.s |-> GABAa1_int_s(sy.s[k], sy.tau)]
        s2 == [k \in DOMAIN s1 |->
                 IF spike[sy.pre_ids[k]] > 0 THEN QAdd(s1[k], QOne) ELSE s1[k]]
        g2 == [k \in DOMAIN s2 |-> QMul(sy.g_max, s2[k])]
    IN  [syn |-> [sy EXCEPT !.s = s2, !.g = g2, !.nupd = @ + 1,
                            !.log = <<"integrate", "increment", "inject">>],
         input |-> GABAa_output(sy, g2, V, input)]

\* TT taken from t_last_pre_spike as it was before this tick's spikes
GABAa2_update_stale_TT(sy, spike, V, input, t) ==
    LET tl == [k \in DOMAIN sy.s |->
                 IF spike[sy.pre_ids[k]] > 0 THEN t ELSE sy.t_last_pre_spike[k]]
        TT == [k \in DOMAIN sy.s |->
                 IF QLt(QInt(t - sy.t_last_pre_spike[k]), GABAa2_T_duration)
                 THEN GABAa2_T ELSE QZero]
        s1 == [k \in DOMAIN sy.s |-> GABAa2_int_s(sy.s[k], TT[k])]
        g1 == [k \in DOMAIN s1 |-> QMul(sy.g_max, s1[k])]
    IN  [syn |-> [sy EXCEPT !.t_last_pre_spike = tl, !.TT = TT, !.s = s1, !.g = g1,
                            !.nupd = @ + 1,
                            !.log = <<"increment", "integrate", "inject">>],
         input |-> GABAa_output(sy, g1, V, input)]

\* the steps (update, output) of GABAa2 at time t
GABAa2_update(sy, spike, V, input, t) ==
    LET tl == [k \in DOMAIN sy.s |->
                 IF spike[sy.pre_ids[k]] > 0 THEN t ELSE sy.t_last_pre_spike[k]]
        TT == [k \in DOMAIN sy.s |->
                 IF QLt(QInt(t - tl[k]), GABAa2_T_duration) THEN GABAa2_T ELSE QZero]
        s1 == [k \in DOMAIN sy.s |-> GABAa2_int_s(sy.s[k], TT[k])]
        g1 == [k \in DOMAIN s1 |-> QMul(sy.g_max, s1[k])]
    IN  [syn |-> [sy EXCEPT !.t_last_pre_spike = tl, !.TT = TT, !.s = s1, !.g = g1,
                            !.nupd = @ + 1,
                            !.log = <<"increment", "integrate", "inject">>],
         input |-> GABAa_output(sy, g1, V, input)]

\* the update step bound at construction (self.steps.replace('update', ...))
Update(sy, spike, V, input, t) ==
    CASE sy.kind = "ExpCUBA" /\ sy.update_type = "sparse" ->
            ExpCUBA_sparse_update(sy, spike, V, input)
      [] sy.kind = "ExpCOBA" /\ sy.update_type = "sparse" ->
            ExpCOBA_sparse_update(sy, spike, V, input)
      [] sy.kind \in {"ExpCUBA", "ExpCOBA"} /\ sy.update_type = "dense" ->
            ExpCUBA_dense_update(sy, spike, V, input)
      [] sy.kind = "NMDA" -> NMDA_sparse_update(sy, spike, V, input)
      [] sy.kind = "GABAa1" -> GABAa1_update(sy, spike, V, input)
      [] sy.kind = "GABAa2" -> GABAa2_update(sy, spike, V, input, t)

(***************************************************************************)
(* State.  syn: the synapse objects; pre.spike, post.V and post.input: the  *)
(* fields of the two populations the synapses read and write; tick: how     *)
(* many ticks have started; done: the synapses already updated in this      *)
(* tick; hist: pre.spike of every tick so far, in order; neu: the state of  *)
(* the post-synaptic population's own model.                                *)
(***************************************************************************)
External == [model |-> "external"]

InitWith(ids) ==
    /\ syn = [s \in ids |-> Blank]
    /\ pre = [spike |-> ZeroSpikes]
    /\ post = [V |-> [j \in PostIds |-> QZero], input |-> ZeroInput]
    /\ tick = 0
    /\ done = {}
    /\ hist = <<>>
    /\ neu = External

Init == InitWith({1})

\* the constructor arguments tried for a network of one synapse
Configs ==
    {Params("ExpCUBA", ut, tau, QOne, D, gm, QZero, conn) :
        ut \in UpdateTypes, tau \in TauValues, D \in 0 .. MaxDelay,
        gm \in GMaxValues, conn \in Conns}
    \cup
    {Params("ExpCOBA", ut, tau, QOne, D, gm, E, conn) :
        ut \in UpdateTypes, tau \in {Q(0, 1), Q(2, 1)}, D \in 0 .. MaxDelay,
        gm \in GMaxValues, E \in EValues, conn \in Conns}
    \cup
    {Params("NMDA", ut, tau, tr, D, QInt(2), E, conn) :
        ut \in UpdateTypes, tau \in {Q(0, 1), Q(2, 1)}, tr \in TauRiseValues,
        D \in 0 .. MaxDelay, E \in EValues, conn \in Conns}
    \cup
    {Params("GABAa1", "sparse", tau, QOne, 0, QInt(2), E, conn) :
        tau \in TauValues, E \in EValues, conn \in Conns}
    \cup
    {Params("GABAa2", "sparse", QOne, QOne, 0, QInt(2), E, conn) :
        E \in EValues, conn \in Conns}

\* the constructor arguments tried for each synapse of a network of two
PairConfigs ==
    {Params(kind, ut, Q(2, 1), QOne, 0, QInt(2), QZero, ConnScenario) :
        kind \in {"ExpCUBA", "ExpCOBA"}, ut \in {"sparse", "dense"}}
    \cup
    {Params(kind, "sparse", Q(2, 1), QOne, 0, QInt(2), QZero, ConnScenario) :
        kind \in {"NMDA", "GABAa1", "GABAa2"}}
    \cup
    {Params("ExpCUBA", "sparse", Q(2, 1), QOne, 1, QInt(1), QZero, ConnCross)}

ConfigsFor(ids) == IF Cardinality(ids) = 1 THEN Configs ELSE PairConfigs

\* the constructor call
Construct(s) ==
    /\ syn[s].status = "new"
    /\ \E p \in ConfigsFor(DOMAIN syn) : syn' = [syn EXCEPT ![s] = New(p)]
    /\ UNCHANGED <<pre, post, tick, done, hist, neu>>

TickOver ==
    /\ \A s \in DOMAIN syn : syn[s].status # "new"
    /\ tick = 0 \/ \A s \in DOMAIN syn : syn[s].status = "ready" => s \in done
    /\ tick < MaxTick

\* The populations' own updates, which start a tick: the pre-synaptic group sets
\* its spike flags, the post-synaptic group its V, and it zeroes its input.
PopulationUpdate ==
    /\ neu.model = "external"
    /\ TickOver
    /\ \E sp \in SpikeVectors, v \in VVectors :
        /\ pre' = [spike |-> sp]
        /\ post' = [V |-> v, input |-> ZeroInput]
        /\ hist' = Append(hist, sp)
    /\ tick' = tick + 1
    /\ done' = {}
    /\ UNCHANGED <<syn, neu>>

\* one synapse's update step of the tick, at time _t = tick - 1
SynUpdate(s) ==
    /\ tick > 0
    /\ s \notin done
    /\ syn[s].status = "ready"
    /\ LET r == Update(syn[s], pre.spike, post.V, post.input, tick - 1)
           z == Update(syn[s], pre.spike, post.V, ZeroInput, tick - 1)
       IN  /\ syn' = [syn EXCEPT ![s] =
                        [r.syn EXCEPT
                           !.contrib = [j \in PostIds |-> QSub(r.input[j], post.input[j])],
                           !.alone = z.input]]
           /\ post' = [post EXCEPT !.input = r.input]
    /\ done' = done \cup {s}
    /\ UNCHANGED <<pre, tick, hist, neu>>

Next ==
    \/ \E s \in DOMAIN syn : Construct(s)
    \/ PopulationUpdate
    \/ \E s \in DOMAIN syn : SynUpdate(s)

Spec == Init /\ [][Next]_vars

\* two synapses onto the same post-synaptic population
InitPair == InitWith({1, 2})

SpecPair == InitPair /\ [][Next]_vars

(***************************************************************************)
(* The neuron models, as the post-synaptic population of one synapse.  A    *)
(* neuron's update starts a tick: it reads what the synapses accumulated    *)
(* in input during the previous tick, and zeroes it.  ops[j] is the list   *)
(* of accesses the update made to neuron j's input, in order.               *)
(***************************************************************************)
\* FHN(size, a, b, tau, Vth)
FHN_a == QInt(1)

FHN_b == QInt(1)

FHN_tau == QInt(2)

FHN_Vth == QInt(1)

\* get_AdQuaIF(a, b, a_0, V_c, V_rest, V_reset, V_th, R, tau, tau_w, noise)
ADQ_a == QInt(1)

ADQ_b == QInt(1)

ADQ_a_0 == QInt(1)

ADQ_V_c == QInt(1)

ADQ_V_rest == QInt(0)

ADQ_V_reset == QInt(-1)

ADQ_V_th == QInt(2)

ADQ_R == QInt(1)

ADQ_tau == QInt(1)

ADQ_tau_w == QInt(2)

\* t_refractory, in units of _dt
RefractoryValues == {0, 1, 2}

\* FHN.__init__ (V and input are zeros too) and the NeuState of get_AdQuaIF
NeuNew(model, tref) ==
    [model |-> model, t_refractory |-> tref,
     w |-> [j \in PostIds |-> QZero],
     spike |-> [j \in PostIds |-> 0],
     refractory |-> [j \in PostIds |-> 0],
     t_last_spike |-> [j \in PostIds |-> TLastInit],
     ops |-> [j \in PostIds |-> <<>>],
     nupd |-> 0]

\* FHN.integral, Euler: dw = (V + a - b * w) / tau; dV = V - V * V * V / 3 - w + Iext
FHN_integral(V, w, Iext) ==
    LET dw == QDiv(QSub(QAdd(V, FHN_a), QMul(FHN_b, w)), FHN_tau)
        dV == QAdd(QSub(QSub(V, QDiv(QMul(V, QMul(V, V)), QInt(3))), w), Iext)
    IN  [V |-> QAdd(V, dV), w |-> QAdd(w, dw)]

\* an update of FHN that leaves the accumulated input in place
FHN_update_keeps_input(nr, V, input, t) ==
    LET r == [j \in PostIds |-> FHN_integral(V[j], nr.w[j], input[j])]
        sp == [j \in PostIds |->
                 IF QLe(FHN_Vth, r[j].V) /\ QLt(V[j], FHN_Vth) THEN 1 ELSE 0]
    IN  [neu |-> [nr EXCEPT !.w = [j \in PostIds |-> r[j].w],
                            !.spike = sp,
                            !.t_last_spike = [j \in PostIds |->
                                IF sp[j] = 1 THEN t ELSE nr.t_last_spike[j]],
                            !.ops = [j \in PostIds |-> <<"read">>],
                            !.nupd = @ + 1],
         V |-> [j \in PostIds |-> r[j].V],
         input |-> input]

\* an update of FHN whose spike flag is the level V >= Vth
FHN_update_level(nr, V, input, t) ==
    LET r == [j \in PostIds |-> FHN_integral(V[j], nr.w[j], input[j])]
        sp == [j \in PostIds |-> IF QLe(FHN_Vth, r[j].V) THEN 1 ELSE 0]
    IN  [neu |-> [nr EXCEPT !.w = [j \in PostIds |-> r[j].w],
                            !.spike = sp,
                            !.t_last_spike = [j \in PostIds |->
                                IF sp[j] = 1 THEN t ELSE nr.t_last_spike[j]],
                            !.ops = [j \in PostIds |-> <<"read", "zero">>],
                            !.nupd = @ + 1],
         V |-> [j \in PostIds |-> r[j].V],
         input |-> ZeroInput]

\* FHN.update(_t, _dt)
FHN_update(nr, V, input, t) ==
    LET r == [j \in PostIds |-> FHN_integral(V[j], nr.w[j], input[j])]
        sp == [j \in PostIds |->
                 IF QLe(FHN_Vth, r[j].V) /\ QLt(V[j], FHN_Vth) THEN 1 ELSE 0]
    IN  [neu |-> [nr EXCEPT !.w = [j \in PostIds |-> r[j].w],
                            !.spike = sp,
                            !.t_last_spike = [j \in PostIds |->
                                IF sp[j] = 1 THEN t ELSE nr.t_last_spike[j]],
                            !.ops = [j \in PostIds |-> <<"read", "zero">>],
                            !.nupd = @ + 1],
         V |-> [j \in PostIds |-> r[j].V],
         input |-> ZeroInput]

\* get_AdQuaIF.int_w, Euler: (a * (V - V_rest) - w) / tau_w
ADQ_int_w(w, V) ==
    QAdd(w, QDiv(QSub(QMul(ADQ_a, QSub(V, ADQ_V_rest)), w), ADQ_tau_w))

\* get_AdQuaIF.int_V, Euler: (a_0 * (V - V_rest) * (V - V_c) - R * w + R * I_ext) / tau
ADQ_int_V(V, w, I_ext) ==
    QAdd(V, QDiv(QAdd(QSub(QMul(ADQ_a_0, QMul(QSub(V, ADQ_V_rest), QSub(V, ADQ_V_c))),
                           QMul(ADQ_R, w)),
                      QMul(ADQ_R, I_ext)),
                 ADQ_tau))

\* the refractory test with < in place of <=
ADQ_update_one_strict(st, tref, t) ==
    IF t - st.t_last_spike < tref
    THEN [V |-> st.V, w |-> st.w, input |-> QZero, spike |-> 0, refractory |-> 1,
          t_last_spike |-> st.t_last_spike, ops |-> <<"zero">>]
    ELSE LET w == ADQ_int_w(st.w, st.V)
             V == ADQ_int_V(st.V, w, st.input)
         IN  IF QLe(ADQ_V_th, V)
             THEN [V |-> ADQ_V_reset, w |-> QAdd(w, ADQ_b), input |-> QZero,
                   spike |-> 1, refractory |-> 0, t_last_spike |-> t,
                   ops |-> <<"read", "zero">>]
             ELSE [V |-> V, w |-> w, input |-> QZero, spike |-> 0,
                   refractory |-> 0, t_last_spike |-> st.t_last_spike,
                   ops |-> <<"read", "zero">>]

\* get_AdQuaIF.update(ST, _t) for one neuron: st is its V, w, input, t_last_spike
ADQ_update_one(st, tref, t) ==
    IF t - st.t_last_spike <= tref
    THEN [V |-> st.V, w |-> st.w, input |-> QZero, spike |-> 0, refractory |-> 1,
          t_last_spike |-> st.t_last_spike, ops |-> <<"zero">>]
    ELSE LET w == ADQ_int_w(st.w, st.V)
             V == ADQ_int_V(st.V, w, st.input)
         IN  IF QLe(ADQ_V_th, V)
             THEN [V |-> ADQ_V_reset, w |-> QAdd(w, ADQ_b), input |-> QZero,
                   spike |-> 1, refractory |-> 0, t_last_spike |-> t,
                   ops |-> <<"read", "zero">>]
             ELSE [V |-> V, w |-> w, input |-> QZero, spike |-> 0,
                   refractory |-> 0, t_last_spike |-> st.t_last_spike,
                   ops |-> <<"read", "zero">>]

\* the scalar update, run for every neuron of the group
ADQ_update(nr, V, input, t) ==
    LET r == [j \in PostIds |->
                ADQ_update_one([V |-> V[j], w |-> nr.w[j], input |-> input[j],
                                t_last_spike |-> nr.t_last_spike[j]],
                               nr.t_refractory, t)]
    IN  [neu |-> [nr EXCEPT !.w = [j \in PostIds |-> r[j].w],
                            !.spike = [j \in PostIds |-> r[j].spike],
                            !.refractory = [j \in PostIds |-> r[j].refractory],
                            !.t_last_spike = [j \in PostIds |-> r[j].t_last_spike],
                            !.ops = [j \in PostIds |-> r[j].ops],
                            !.nupd = @ + 1],
         V |-> [j \in PostIds |-> r[j].V],
         input |-> [j \in PostIds |-> r[j].input]]

\* the synapses that feed the neuron model
NeuConfigs ==
    {Params(kind, "sparse", Q(2, 1), QOne, 0, gm, QZero, ConnScenario) :
        kind \in {"ExpCUBA", "ExpCOBA"}, gm \in GMaxValues}

\* a constructed network: one synapse onto a group of FHN or AdQuaIF neurons
InitNeu ==
    /\ \E p \in NeuConfigs : syn = [s \in {1} |-> New(p)]
    /\ \E model \in {"FHN", "AdQuaIF"}, tref \in RefractoryValues :
          /\ model = "FHN" => tref = 0
          /\ neu = NeuNew(model, tref)
    /\ pre = [spike |-> ZeroSpikes]
    /\ post = [V |-> [j \in PostIds |-> QZero], input |-> ZeroInput]
    /\ tick = 0
    /\ done = {}
    /\ hist = <<>>

\* the neuron group's update at time _t = tick, followed by the pre-synaptic
\* group setting its spike flags
NeuStep(r) ==
    /\ neu' = r.neu
    /\ post' = [V |-> r.V, input |-> r.input]
    /\ \E sp \in SpikeVectors :
        /\ pre' = [spike |-> sp]
        /\ hist' = Append(hist, sp)
    /\ tick' = tick + 1
    /\ done' = {}
    /\ UNCHANGED syn

FHNUpdate ==
    /\ neu.model = "FHN"
    /\ TickOver
    /\ NeuStep(FHN_update(neu, post.V, post.input, tick))

AdQuaIFUpdate ==
    /\ neu.model = "AdQuaIF"
    /\ TickOver
    /\ NeuStep(ADQ_update(neu, post.V, post.input, tick))

NextNeu ==
    \/ FHNUpdate
    \/ AdQuaIFUpdate
    \/ \E s \in DOMAIN syn : SynUpdate(s)

SpecNeu == InitNeu /\ [][NextNeu]_vars

(***************************************************************************)
(* C1.  Delay correctness: the vector a synapse with delay D pulled in its  *)
(* update of tick k is pre.spike of tick k - D when k >= D and all zero     *)
(* when k < D; with D = 0 it is pre.spike of the same tick.                 *)
(***************************************************************************)
HasDelayLine(sy) ==
    sy.kind \in {"ExpCUBA", "ExpCOBA", "NMDA"} /\ sy.hasState

DelayCorrect ==
    \A s \in DOMAIN syn :
        (HasDelayLine(syn[s]) /\ syn[s].nupd > 0) =>
            LET k == syn[s].nupd - 1
                D == syn[s].delay
            IN  syn[s].pulled = IF k >= D THEN hist[k - D + 1] ELSE ZeroSpikes

\* a synapse with a delay pulled a spike vector that is not the one just pushed
DelayedSpikePulled ==
    \E s \in DOMAIN syn :
        /\ HasDelayLine(syn[s])
        /\ syn[s].delay >= 1
        /\ syn[s].nupd > syn[s].delay
        /\ syn[s].pulled # ZeroSpikes
        /\ syn[s].pulled # pre.spike

(***************************************************************************)
(* C2.  Sparse/dense equivalence: two ExpCUBA (or two ExpCOBA) synapses     *)
(* built with the same arguments and the same connectivity, one with        *)
(* update_type 'sparse' and one with 'dense', that have run the same ticks  *)
(* on the same pre-spike sequence changed post.input by the same amount in  *)
(* the latest tick.                                                         *)
(***************************************************************************)
SameButUpdateType(a, b) ==
    /\ a.kind = b.kind /\ a.kind \in {"ExpCUBA", "ExpCOBA"}
    /\ a.update_type = "sparse" /\ b.update_type = "dense"
    /\ a.tau = b.tau /\ a.delay = b.delay /\ a.g_max = b.g_max /\ a.E = b.E
    /\ a.conn = b.conn

SparseDenseEquivalent ==
    \A a, b \in DOMAIN syn :
        (/\ SameButUpdateType(syn[a], syn[b])
         /\ syn[a].status = "ready" /\ syn[b].status = "ready"
         /\ syn[a].nupd > 0 /\ syn[a].nupd = syn[b].nupd)
        => syn[a].contrib = syn[b].contrib

(***************************************************************************)
(* C3.  Additivity: at every point of a tick post.input is the sum, over    *)
(* the synapses that have run in this tick (in whichever order), of what    *)
(* each one's update leaves in an all-zero input.                           *)
(***************************************************************************)
RECURSIVE SumAlone(_)
SumAlone(ids) ==
    IF ids = {} THEN ZeroInput
    ELSE LET s == CHOOSE s \in ids : TRUE
             rest == SumAlone(ids \ {s})
         IN  [j \in PostIds |-> QAdd(syn[s].alone[j], rest[j])]

Additive == tick > 0 => post.input = SumAlone(done)

\* two synapses of different models ran in one tick, each with a non-zero
\* contribution to the same post-synaptic neuron
TwoContributions ==
    /\ done = {1, 2}
    /\ syn[1].kind # syn[2].kind
    /\ \E j \in PostIds : syn[1].alone[j] # QZero /\ syn[2].alone[j] # QZero

(***************************************************************************)
(* C4.  Tick ordering: the latest update of every synapse with a delay      *)
(* line ran one push, then one pull, then the integration, then the         *)
(* increments of the synaptic state followed by the injection into          *)
(* post.input (for NMDA, whose loop handles one edge at a time, the         *)
(* increment and then the injection of each edge).                          *)
(***************************************************************************)
IncrementThenInject(rest) ==
    /\ rest # <<>>
    /\ Len(rest) % 2 = 0
    /\ \A k \in 1 .. Len(rest) :
        rest[k] = IF k % 2 = 1 THEN "increment" ELSE "inject"

TickOrdered ==
    \A s \in DOMAIN syn :
        (HasDelayLine(syn[s]) /\ syn[s].status = "ready" /\ syn[s].nupd > 0) =>
            /\ Len(syn[s].log) >= 3
            /\ SubSeq(syn[s].log, 1, 3) = <<"push", "pull", "integrate">>
            /\ IncrementThenInject(SubSeq(syn[s].log, 4, Len(syn[s].log)))

(***************************************************************************)
(* C5.  Conductance-based zero-crossing: a conductance-based synapse        *)
(* (ExpCOBA, NMDA, GABAa1, GABAa2) that ran in this tick changed            *)
(* post.input[j] by exactly zero for every post-synaptic neuron j with      *)
(* V[j] = E.                                                                *)
(***************************************************************************)
ConductanceBased(sy) == sy.kind \in {"ExpCOBA", "NMDA", "GABAa1", "GABAa2"}

ZeroCrossing ==
    \A s \in done :
        (ConductanceBased(syn[s]) /\ syn[s].status = "ready") =>
            \A j \in PostIds : post.V[j] = syn[s].E => syn[s].contrib[j] = QZero

\* a sparse ExpCOBA synapse ran with V = E at a neuron whose g is not zero,
\* while it changed the input of another neuron
ZeroCrossingHit ==
    \E s \in done :
        /\ syn[s].kind = "ExpCOBA" /\ syn[s].update_type = "sparse"
        /\ syn[s].status = "ready"
        /\ \E j, k \in PostIds :
            /\ post.V[j] = syn[s].E /\ syn[s].g[j] # QZero
            /\ syn[s].contrib[k] # QZero

(***************************************************************************)
(* C6.  ExpCUBA sparse step: one update decays every g[j] by the factor     *)
(* exp(-dt/tau), adds g_max once for every flagged pre-id with an edge to   *)
(* j, and then adds the resulting g to post.input.  With the edges          *)
(* 0->0, 0->1, 1->1, g_max = 1, delay 0 and g = 0, the spike vector [1,0]   *)
(* leaves g = [1,1] and adds [1,1] to the input; an update with no delayed  *)
(* spike only decays g and adds the decayed g.                              *)
(***************************************************************************)
CUBAStepped(s) ==
    /\ syn[s].kind = "ExpCUBA" /\ syn[s].update_type = "sparse"
    /\ syn'[s].nupd = syn[s].nupd + 1
    /\ syn'[s].status = "ready"

Flagged(s, j) ==
    Cardinality({i \in PreIds : syn'[s].pulled[i] # 0 /\ <<i, j>> \in syn[s].conn})

CUBAStepRight(s) ==
    /\ \A j \in PostIds :
        /\ syn'[s].g[j] = QAdd(QMul(syn[s].g[j], ExpDecay(syn[s].tau)),
                               QMul(syn[s].g_max, QInt(Flagged(s, j))))
        /\ post'.input[j] = QAdd(post.input[j], syn'[s].g[j])
    /\ (/\ syn[s].conn = ConnScenario /\ syn[s].g_max = QOne /\ syn[s].delay = 0
        /\ syn[s].g = ZeroInput /\ pre.spike = [i \in PreIds |-> IF i = 0 THEN 1 ELSE 0])
       => /\ syn'[s].g = [j \in PostIds |-> QOne]
          /\ post'.input = [j \in PostIds |-> QAdd(post.input[j], QOne)]
    /\ syn'[s].pulled = ZeroSpikes
       => \A j \in PostIds : syn'[s].g[j] = QMul(syn[s].g[j], ExpDecay(syn[s].tau))

CUBAScenario == [][\A s \in DOMAIN syn : CUBAStepped(s) => CUBAStepRight(s)]_vars

\* the scenario's two ticks have run: [1,0], then no spike
CUBAScenarioRan ==
    \E s \in done :
        /\ syn[s].kind = "ExpCUBA" /\ syn[s].update_type = "sparse"
        /\ syn[s].conn = ConnScenario /\ syn[s].g_max = QOne /\ syn[s].delay = 0
        /\ syn[s].nupd = 2
        /\ hist = <<[i \in PreIds |-> IF i = 0 THEN 1 ELSE 0], ZeroSpikes>>
        /\ syn[s].g = [j \in PostIds |-> ExpDecay(syn[s].tau)]
        /\ post.input = syn[s].g

(***************************************************************************)
(* C7.  Construction and update_type.  As claimed: for ExpCUBA, ExpCOBA     *)
(* and NMDA the constructor returns when update_type is 'sparse' or         *)
(* 'dense', and raises the unsupported error, with g and the delay line     *)
(* not created, for any other value.                                        *)
(***************************************************************************)
Typed(sy) == sy.kind \in {"ExpCUBA", "ExpCOBA", "NMDA"} /\ sy.status # "new"

UpdateTypeChecked ==
    \A s \in DOMAIN syn :
        Typed(syn[s]) =>
            IF syn[s].update_type \in {"sparse", "dense"}
            THEN syn[s].hasState
            ELSE syn[s].status = "UnsupportedError" /\ ~syn[s].hasState

(***************************************************************************)
(* C7, amended.  ExpCUBA and ExpCOBA are constructed for 'sparse' and       *)
(* 'dense'; NMDA is constructed for 'sparse' only and raises                *)
(* NotImplementedError for 'dense'; any other value raises the unsupported  *)
(* error; every failure leaves g and the delay line not created.            *)
(***************************************************************************)
UpdateTypeCheckedButNMDADense ==
    \A s \in DOMAIN syn :
        Typed(syn[s]) =>
            CASE syn[s].update_type = "sparse" -> syn[s].hasState
              [] syn[s].update_type = "dense" /\ syn[s].kind # "NMDA" -> syn[s].hasState
              [] syn[s].update_type = "dense" /\ syn[s].kind = "NMDA" ->
                    syn[s].status = "NotImplementedError" /\ ~syn[s].hasState
              [] OTHER -> syn[s].status = "UnsupportedError" /\ ~syn[s].hasState

\* a constructor raised the unsupported error
UnsupportedRaised ==
    \E s \in DOMAIN syn :
        /\ syn[s].kind = "ExpCUBA" /\ syn[s].update_type = "loop"
        /\ syn[s].status = "UnsupportedError"

(***************************************************************************)
(* C8.  Zero time constants: a synapse given tau = 0 (or, for NMDA,         *)
(* tau_rise = 0) fails at construction with the unsupported error, and no   *)
(* update ever divides by a zero time constant.                             *)
(***************************************************************************)
ZeroTau(sy) ==
    \/ sy.kind \in {"ExpCUBA", "ExpCOBA", "NMDA", "GABAa1"} /\ sy.tau = QZero
    \/ sy.kind = "NMDA" /\ sy.tau_rise = QZero

ZeroTauRejected ==
    \A s \in DOMAIN syn :
        /\ (syn[s].status # "new" /\ ZeroTau(syn[s]))
              => syn[s].status = "UnsupportedError"
        /\ syn[s].status # "ZeroDivision"

(***************************************************************************)
(* C9.  The neuron population, not the synapse, zeroes its input: every     *)
(* neuron update (FHN.update, the AdQuaIF update in each of its branches,   *)
(* the refractory one included) runs once per tick, reads the accumulated   *)
(* input of a neuron at most once and then, as its last access, sets it to  *)
(* zero; a synapse update only adds its contribution to post.input and      *)
(* never sets it to zero.                                                   *)
(***************************************************************************)
NeuronUpdated == neu'.nupd = neu.nupd + 1

\* the accesses to input of one neuron update: at most one read, then the zeroing
ReadOnceThenZero(ops) == ops \in {<<"zero">>, <<"read", "zero">>}

InputZeroedByNeuron ==
    [][ /\ NeuronUpdated <=> tick' = tick + 1
        /\ NeuronUpdated =>
              /\ post'.input = ZeroInput
              /\ \A j \in PostIds : ReadOnceThenZero(neu'.ops[j])
        /\ \A s \in DOMAIN syn :
              syn'[s].nupd = syn[s].nupd + 1 =>
                  /\ ~ NeuronUpdated
                  /\ \A k \in DOMAIN syn'[s].log : syn'[s].log[k] # "zero"
                  /\ post'.input =
                        [j \in PostIds |-> QAdd(post.input[j], syn'[s].alone[j])]
      ]_vars

\* an AdQuaIF neuron in its refractory branch has just zeroed, unread, the
\* non-zero input the synapse had accumulated for it
RefractoryInputZeroed ==
    /\ neu.model = "AdQuaIF"
    /\ tick >= 2
    /\ done = {}
    /\ \E j \in PostIds :
          /\ neu.refractory[j] = 1
          /\ neu.ops[j] = <<"zero">>
          /\ syn[1].contrib[j] # QZero
          /\ post.input[j] = QZero

(***************************************************************************)
(* C10.  Decay monotonicity: for every positive decay time constant, an     *)
(* update in which no spike arrives maps each positive value of the         *)
(* single-exponential gating variable (g of ExpCUBA and ExpCOBA, s of       *)
(* GABAa1) to a strictly smaller value that is still >= 0, and 0 to 0.      *)
(***************************************************************************)
DecayStep(a, b) ==
    /\ QLt(QZero, a) => QLe(QZero, b) /\ QLt(b, a)
    /\ a = QZero => b = QZero

\* synapse s has just run one update in which no spike arrived
DecayedOnly(s) ==
    /\ syn[s].status = "ready"
    /\ syn'[s].status = "ready"
    /\ syn'[s].nupd = syn[s].nupd + 1
    /\ QLt(QZero, syn[s].tau)
    /\ \/ syn[s].kind \in {"ExpCUBA", "ExpCOBA"} /\ syn'[s].pulled = ZeroSpikes
       \/ syn[s].kind = "GABAa1" /\ pre.spike = ZeroSpikes

DecayMonotone ==
    [][\A s \in DOMAIN syn :
          DecayedOnly(s) =>
             CASE syn[s].kind = "GABAa1" ->
                    \A k \in DOMAIN syn[s].s : DecayStep(syn[s].s[k], syn'[s].s[k])
               [] syn[s].update_type = "dense" ->
                    \A i \in PreIds, j \in PostIds :
                        DecayStep(syn[s].g[i][j], syn'[s].g[i][j])
               [] OTHER ->
                    \A j \in DOMAIN syn[s].g : DecayStep(syn[s].g[j], syn'[s].g[j])
      ]_vars

(***************************************************************************)
(* C11.  NMDA rise-decay ordering: an NMDA update integrates (g, x) from    *)
(* the x of before this tick's spike increment and adds the delayed spike   *)
(* to x only afterwards.  So the g and the post.input an update leaves are  *)
(* those of the same update with no spike delivered, the delivered spike    *)
(* shows in x alone, and a spike delivered in the previous update changes   *)
(* the g of this one.                                                       *)
(***************************************************************************)
\* synapse s, an NMDA synapse, has just run one update
NMDAStepped(s) ==
    /\ syn[s].kind = "NMDA"
    /\ syn[s].status = "ready"
    /\ syn'[s].status = "ready"
    /\ syn'[s].nupd = syn[s].nupd + 1

\* the same synapse with nothing in its delay line
Silenced(sy) ==
    [sy EXCEPT !.pre_spike.data = [k \in DOMAIN sy.pre_spike.data |-> ZeroSpikes]]

\* the update of this tick had no spike been delivered to it
QuietUpdate(s) == Update(Silenced(syn[s]), ZeroSpikes, post.V, post.input, tick - 1)

RiseBeforeIncrement ==
    [][\A s \in DOMAIN syn :
          NMDAStepped(s) =>
             /\ syn'[s].g = QuietUpdate(s).syn.g
             /\ post'.input = QuietUpdate(s).input
             /\ \A i \in DOMAIN syn[s].x :
                   /\ syn'[s].x[i] =
                         QAdd(QuietUpdate(s).syn.x[i],
                              QInt(syn'[s].pulled[syn[s].pre_ids[i]]))
                   /\ (syn[s].nupd >= 1 /\ syn[s].pulled[syn[s].pre_ids[i]] = 1) =>
                         syn'[s].g[i] #
                            NMDA_integral_g(syn[s].g[i],
                                            QSub(syn[s].x[i], QOne), syn[s].tau)
      ]_vars

\* a spike was delivered to a resting NMDA synapse in the update just run: it
\* is in x, and g and the contribution to post.input are still zero
SpikeOnlyInX ==
    \E s \in DOMAIN syn :
        /\ syn[s].kind = "NMDA"
        /\ syn[s].status = "ready"
        /\ syn[s].nupd >= 1
        /\ s \in done
        /\ post.V # [j \in PostIds |-> syn[s].E]
        /\ \E i \in DOMAIN syn[s].x :
              /\ syn[s].pulled[syn[s].pre_ids[i]] = 1
              /\ syn[s].x[i] = QOne
              /\ syn[s].g[i] = QZero
        /\ syn[s].contrib = ZeroInput

(***************************************************************************)
(* C12.  GABAa2 transmitter indicator: in every update, at time t, the TT   *)
(* that drives s of a synapse is T if t - t_last_pre_spike < T_duration and *)
(* 0 otherwise, t_last_pre_spike being the time of the latest tick, this    *)
(* one included, in which the synapse's pre-neuron spiked; TT is 0 before   *)
(* the first spike, and T exactly for t0 <= t < t0 + T_duration after a     *)
(* last spike at t0.                                                        *)
(***************************************************************************)
\* the times (tick number - 1) up to now at which pre-neuron i spiked
SpikeTimes(i) == {m - 1 : m \in {n \in 1 .. Len(hist) : hist[n][i] = 1}}

Latest(S) == CHOOSE m \in S : \A n \in S : n <= m

\* the indicator of pre-neuron i at time t, from the history of spikes
Transmitter(i, t) ==
    IF SpikeTimes(i) = {} THEN QZero
    ELSE IF t - Latest(SpikeTimes(i)) < GABAa2_T_duration.n THEN GABAa2_T
    ELSE QZero

TransmitterIndicator ==
    \A s \in done :
        (syn[s].kind = "GABAa2" /\ syn[s].status = "ready") =>
            \A k \in DOMAIN syn[s].s :
                /\ syn[s].TT[k] = Transmitter(syn[s].pre_ids[k], tick - 1)
                /\ syn[s].t_last_pre_spike[k] =
                      IF SpikeTimes(syn[s].pre_ids[k]) = {} THEN TLastInit
                      ELSE Latest(SpikeTimes(syn[s].pre_ids[k]))

\* T_duration after a synapse's only spike its TT is back to 0, s still open
TransmitterOver ==
    \E s \in done :
        /\ syn[s].kind = "GABAa2"
        /\ \E k \in DOMAIN syn[s].s :
              /\ SpikeTimes(syn[s].pre_ids[k]) = {0}
              /\ tick - 1 = GABAa2_T_duration.n
              /\ syn[s].TT[k] = QZero
              /\ QLt(QZero, syn[s].s[k])

(***************************************************************************)
(* C13.  AdQuaIF refractory behaviour: an update at time _t with            *)
(* _t - t_last_spike <= t_refractory sets refractory = 1 and spike = 0 and  *)
(* leaves V, w and t_last_spike alone; any other update sets refractory = 0 *)
(* and sets spike = 1 exactly when the integrated V reaches V_th, and then  *)
(* V becomes V_reset, w is the integrated w plus b and t_last_spike is _t.  *)
(* So a spike comes more than t_refractory after the one before it.         *)
(***************************************************************************)
\* the group of AdQuaIF neurons has just run its update, at time _t = tick
AdQuaIFStepped == neu.model = "AdQuaIF" /\ neu'.nupd = neu.nupd + 1

InRefractory(j) == tick - neu.t_last_spike[j] <= neu.t_refractory

IntegratedW(j) == ADQ_int_w(neu.w[j], post.V[j])

IntegratedV(j) == ADQ_int_V(post.V[j], IntegratedW(j), post.input[j])

RefractoryBehaviour ==
    [][AdQuaIFStepped =>
          \A j \in PostIds :
             /\ InRefractory(j) =>
                   /\ neu'.refractory[j] = 1
                   /\ neu'.spike[j] = 0
                   /\ post'.V[j] = post.V[j]
                   /\ neu'.w[j] = neu.w[j]
                   /\ neu'.t_last_spike[j] = neu.t_last_spike[j]
             /\ ~ InRefractory(j) =>
                   /\ neu'.refractory[j] = 0
                   /\ neu'.spike[j] = 1 <=> QLe(ADQ_V_th, IntegratedV(j))
                   /\ neu'.spike[j] = 1 =>
                         /\ post'.V[j] = ADQ_V_reset
                         /\ neu'.w[j] = QAdd(IntegratedW(j), ADQ_b)
                         /\ neu'.t_last_spike[j] = tick
                   /\ neu'.spike[j] = 0 =>
                         /\ post'.V[j] = IntegratedV(j)
                         /\ neu'.w[j] = IntegratedW(j)
                         /\ neu'.t_last_spike[j] = neu.t_last_spike[j]
             /\ neu'.spike[j] = 1 => tick - neu.t_last_spike[j] > neu.t_refractory
      ]_vars

\* a neuron held at V_reset in the last update of its refractory period,
\* t_refractory >= 1 after its spike
RefractoryHeld ==
    /\ neu.model = "AdQuaIF"
    /\ neu.t_refractory >= 1
    /\ done = {}
    /\ \E j \in PostIds :
          /\ neu.refractory[j] = 1
          /\ neu.spike[j] = 0
          /\ (tick - 1) - neu.t_last_spike[j] = neu.t_refractory
          /\ post.V[j] = ADQ_V_reset

(***************************************************************************)
(* C14.  The FHN spike flag marks upward threshold crossings only: after    *)
(* an update at time _t, spike[i] is true iff the new V[i] >= Vth and the   *)
(* V[i] of before the update was < Vth; t_last_spike[i] is _t if spike[i]   *)
(* is true and is unchanged otherwise.  So no neuron has its spike flag set *)
(* after two consecutive updates.                                           *)
(***************************************************************************)
\* the group of FHN neurons has just run its update, at time _t = tick
FHNStepped == neu.model = "FHN" /\ neu'.nupd = neu.nupd + 1

UpwardCrossing ==
    [][FHNStepped =>
          \A i \in PostIds :
             /\ neu'.spike[i] = 1 <=>
                   (QLe(FHN_Vth, post'.V[i]) /\ QLt(post.V[i], FHN_Vth))
             /\ neu'.t_last_spike[i] =
                   IF neu'.spike[i] = 1 THEN tick ELSE neu.t_last_spike[i]
             /\ neu.spike[i] = 1 => neu'.spike[i] = 0
      ]_vars

\* a neuron that crossed Vth in the update before the last one and has stayed
\* at or above Vth: its flag is down again
StaysAboveNoSpike ==
    /\ neu.model = "FHN"
    /\ done = {}
    /\ \E i \in PostIds :
          /\ neu.t_last_spike[i] = tick - 2
          /\ QLe(FHN_Vth, post.V[i])
          /\ neu.spike[i] = 0

(***************************************************************************)
(* C15.  GABAa conductance invariant: after every update of GABAa1 and of   *)
(* GABAa2, g of every synapse is g_max * s.  In GABAa1 every pre-neuron     *)
(* with spike > 0 adds exactly 1, after the decay step, to s of each        *)
(* synapse of pre2syn[pre_id], and s of the other synapses is changed by    *)
(* the decay alone.                                                         *)
(***************************************************************************)
\* synapse s, of kind GABAa1 or GABAa2, has just run one update
GABAaStepped(s) ==
    /\ syn[s].kind \in {"GABAa1", "GABAa2"}
    /\ syn[s].status = "ready"
    /\ syn'[s].status = "ready"
    /\ syn'[s].nupd = syn[s].nupd + 1

\* the synapses of the pre-neurons that spike in this tick
Triggered(s) ==
    UNION {Pre2Syn(syn[s].conn, i) : i \in {p \in PreIds : pre.spike[p] > 0}}

ConductanceFollowsS ==
    [][\A s \in DOMAIN syn :
          GABAaStepped(s) =>
             /\ \A k \in DOMAIN syn'[s].s :
                   syn'[s].g[k] = QMul(syn[s].g_max, syn'[s].s[k])
             /\ syn[s].kind = "GABAa1" =>
                   \A k \in DOMAIN syn[s].s :
                      syn'[s].s[k] =
                         IF k \in Triggered(s)
                         THEN QAdd(GABAa1_int_s(syn[s].s[k], syn[s].tau), QOne)
                         ELSE GABAa1_int_s(syn[s].s[k], syn[s].tau)
      ]_vars

\* a GABAa1 update in which pre-neuron 0 spiked and pre-neuron 1 did not: both
\* synapses of neuron 0 have their 1, the synapse of neuron 1 has only decayed
OneAddedToTriggered ==
    \E s \in done :
        /\ syn[s].kind = "GABAa1"
        /\ syn[s].status = "ready"
        /\ syn[s].conn = ConnScenario
        /\ pre.spike[0] = 1
        /\ pre.spike[1] = 0
        /\ \A k \in Pre2Syn(syn[s].conn, 0) : QLe(QOne, syn[s].s[k])
        /\ \E k \in Pre2Syn(syn[s].conn, 1) :
              QLt(QZero, syn[s].s[k]) /\ QLt(syn[s].s[k], QOne)
        /\ \A k \in DOMAIN syn[s].s :
              syn[s].g[k] = QMul(syn[s].g_max, syn[s].s[k])

====
